---- MODULE Spec2Model ----
(***************************************************************************)
(* Lime / soda-ash softening calculator (SoftH2O).                         *)
(*                                                                         *)
(* calculateSoftening is a pure function from a WaterQualityData record to *)
(* a SofteningResults record.  It is modelled operator by operator, one    *)
(* operator per local constant of the source, and applied by the action    *)
(* Calculate to samples drawn from a bounded grid.                         *)
(*                                                                         *)
(* Numbers.  A JavaScript number x is modelled by the integer x * Scale    *)
(* (fixed point, six decimals).  Sums, differences, min and max are exact; *)
(* products and quotients are computed exactly and then rounded to the     *)
(* nearest unit; Math.pow(10, x) and Math.log10(x) are computed to about   *)
(* five decimals.  All grid values and all program constants are exact in  *)
(* this representation, so every stage before the stability indices is    *)
(* computed as in exact decimal arithmetic.  The binary rounding of IEEE   *)
(* doubles (relative 2^-53) is not represented.                            *)
(* Math.log10 of 0 is -Infinity and of a negative number NaN: the values   *)
(* that can be non-finite (A, C, phs, lsi) are extended numbers, pairs     *)
(* <<"fin", n>>, <<"inf", 1>>, <<"inf", -1>>, <<"nan", 0>>.                *)
(***************************************************************************)
EXTENDS Integers, Sequences, FiniteSets, TLC

VARIABLES
  data,      \* the WaterQualityData record handed to calculateSoftening
  results,   \* the SofteningResults record of the last call
  locals,    \* the local constants of the last call, at its return
  pc,        \* "ready": data not yet computed; "done": results belong to data
  prev,      \* the finished calls before the last one, [in, out, loc] each
  \* the state of the App component and of its environment
  inputs,           \* useState: the WaterQualityData record being edited
  inputsRef,        \* the identity of the inputs object: one per setInputs
  memo,             \* the useMemo cells: results and chartData with their deps
  aiInsights,       \* useState: the advice text on display
  loadingInsights,  \* useState: an advice request is under way
  hasKey,           \* useState: "null", "true" or "false"
  requests,         \* the calls of getSofteningAdvice awaiting the remote service
  issued,           \* the number of advice requests started so far
  lastAdvice,       \* << >>, or <<r>>: what the last finished request came to
  apiKey,           \* process.env.API_KEY, "" when absent
  aistudio,         \* window.aistudio offers the key functions
  dialog            \* an openSelectKey call is pending

appVars ==
  <<inputs, inputsRef, memo, aiInsights, loadingInsights, hasKey, requests,
    issued, lastAdvice, apiKey, aistudio, dialog>>

vars == <<data, results, locals, pc, prev, appVars>>

-----------------------------------------------------------------------------
(* Fixed-point arithmetic *)

Scale == 10^6
Limb == 10^3

\* x as a fixed-point number, for x given in thousandths (2.497 = Milli(2497))
Milli(n) == n * Limb
\* an integer as a fixed-point number
Num(n) == n * Scale

Abs(a) == IF a < 0 THEN -a ELSE a
Sgn(a) == IF a < 0 THEN -1 ELSE 1

\* Math.max, Math.min
Max(a, b) == IF a >= b THEN a ELSE b
Min(a, b) == IF a <= b THEN a ELSE b

\* a * b for a, b >= 0, rounded to the nearest unit (three-digit limbs keep
\* every intermediate below 2^31)
MulNat(a, b) ==
  LET a1 == a \div Limb
      a0 == a % Limb
      b1 == b \div Limb
      b0 == b % Limb
      cross == a1 * b0 + a0 * b1
  IN  a1 * b1 + (cross \div Limb)
        + (((cross % Limb) * Limb + a0 * b0 + (Scale \div 2)) \div Scale)

\* the JavaScript product a * b
Mul(a, b) == Sgn(a) * Sgn(b) * MulNat(Abs(a), Abs(b))

RECURSIVE DivDigits(_, _, _, _)
DivDigits(r, b, n, acc) ==
  IF n = 0 THEN acc + (IF 2 * r >= b THEN 1 ELSE 0)
  ELSE DivDigits((r * 10) % b, b, n - 1, acc * 10 + ((r * 10) \div b))

DivNat(a, b) == (a \div b) * Scale + DivDigits(a % b, b, 6, 0)

\* the JavaScript quotient a / b, b # 0 (long division, six decimals, rounded)
Div(a, b) == Sgn(a) * Sgn(b) * DivNat(Abs(a), Abs(b))

\* 10^(2^-i) for i = 1..20, in fixed point
Pow10Table == << 3162278, 1778279, 1333521, 1154782, 1074608, 1036633,
                 1018152, 1009035, 1004507, 1002251, 1001125, 1000562,
                 1000281, 1000141, 1000070, 1000035, 1000018, 1000009,
                 1000004, 1000002 >>

\* 10^f for 0 <= f < 1, from the binary digits of f
RECURSIVE Pow10Frac(_, _, _)
Pow10Frac(f, i, acc) ==
  IF i > Len(Pow10Table) \/ f = 0 THEN acc
  ELSE IF 2 * f >= Scale
       THEN Pow10Frac(2 * f - Scale, i + 1, MulNat(acc, Pow10Table[i]))
       ELSE Pow10Frac(2 * f, i + 1, acc)

\* v * 10^k for an integer k, rounded
RECURSIVE ShiftDec(_, _)
ShiftDec(v, k) ==
  IF k = 0 THEN v
  ELSE IF k > 0 THEN ShiftDec(v * 10, k - 1)
  ELSE IF v = 0 THEN 0
  ELSE ShiftDec((v + 5) \div 10, k + 1)

\* Math.pow(10, x) for a finite x
Pow10(x) == ShiftDec(Pow10Frac(x % Scale, 1, Scale), x \div Scale)

\* binary digits of the logarithm that are computed
LogBits == 17

\* log10(y) for 1 <= y < 10, digit by digit: squaring y doubles its logarithm
RECURSIVE Log10Frac(_, _, _)
Log10Frac(y, i, acc) ==
  IF i > LogBits THEN acc
  ELSE LET y2 == MulNat(y, y)
       IN  IF y2 >= 10 * Scale
           THEN Log10Frac((y2 + 5) \div 10, i + 1, acc + (Scale \div (2^i)))
           ELSE Log10Frac(y2, i + 1, acc)

RECURSIVE Log10Norm(_, _)
Log10Norm(x, k) ==
  IF x >= 10 * Scale THEN Log10Norm((x + 5) \div 10, k + 1)
  ELSE IF x < Scale THEN Log10Norm(x * 10, k - 1)
  ELSE k * Scale + Log10Frac(x, 1, 0)

-----------------------------------------------------------------------------
(* Extended numbers: the values a logarithm can make non-finite *)

Fin(n) == <<"fin", n>>
PosInf == <<"inf", 1>>
NegInf == <<"inf", -1>>
NaN == <<"nan", 0>>

IsFin(x) == x[1] = "fin"
IsNaN(x) == x[1] = "nan"
IsInf(x) == x[1] = "inf"

\* faulty variant: a logarithm that fails outside its domain
Log10_Partial(x) ==
  IF x <= 0 THEN <<"err", 0>> ELSE Fin(Log10Norm(x, 0))
\* Math.log10(x): NaN below 0, -Infinity at 0
Log10(x) ==
  IF x < 0 THEN NaN
  ELSE IF x = 0 THEN NegInf
  ELSE Fin(Log10Norm(x, 0))

XNeg(x) == IF IsNaN(x) THEN NaN ELSE <<x[1], -x[2]>>

\* x + y
XAdd(x, y) ==
  IF IsNaN(x) \/ IsNaN(y) THEN NaN
  ELSE IF IsFin(x) /\ IsFin(y) THEN Fin(x[2] + y[2])
  ELSE IF IsFin(x) THEN y
  ELSE IF IsFin(y) THEN x
  ELSE IF x[2] = y[2] THEN x
  ELSE NaN

\* x - y
XSub(x, y) == XAdd(x, XNeg(y))

\* x / c for a finite c > 0
XDivPos(x, c) == IF IsFin(x) THEN Fin(Div(x[2], c)) ELSE x

\* c * x for a finite c < 0
XMulNeg(c, x) ==
  IF IsFin(x) THEN Fin(Mul(c, x[2])) ELSE XNeg(x)

\* x > 0 (false for NaN)
XPositive(x) == (IsFin(x) /\ x[2] > 0) \/ x = PosInf

\* x <= 0 (false for NaN)
XNonPositive(x) == (IsFin(x) /\ x[2] <= 0) \/ x = NegInf

\* Math.pow(10, x): 0 at -Infinity, Infinity at Infinity
XPow10(x) ==
  IF IsNaN(x) THEN NaN
  ELSE IF IsFin(x) THEN Fin(Pow10(x[2]))
  ELSE IF x = NegInf THEN Fin(0)
  ELSE PosInf

-----------------------------------------------------------------------------
(* calculateSoftening: conversion factors *)

CA_TO_CACO3 == 2497000
MG_TO_CACO3 == 4118000
CACO3_MW == 100080000
CAOH2_MW == 74090000
NA2CO3_MW == 105990000

\* pK1 of carbonic acid, 6.35
PK1 == 6350000
\* Mg(OH)2 molar mass, 58.3
MGOH2_MW == 58300000
\* TDS per unit of conductivity, 0.65
TDS_FACTOR == 650000
\* 0 degrees Celsius in Kelvin, 273.15
KELVIN_OFFSET == 273150000
\* the magnesium target below which excess lime is dosed, 40
MG_THRESHOLD_LIME == 40000000
\* the magnesium target below which the finished pH is the high one, 40
MG_THRESHOLD_PH == 40000000
\* the excess lime, 30
EXCESS_LIME == 30000000
\* the finished pH of the two regimes, 10.6 and 9.8
PH_HIGH_LIME == 10600000
PH_ORDINARY == 9800000
\* the floor of the finished alkalinity, 20
ALK_FLOOR == 20000000
\* constants of the Langelier correlation: 9.3, 13.12, 34.55, 0.4
LSI_BASE == 9300000
LSI_TEMP_SLOPE == 13120000
LSI_TEMP_OFFSET == 34550000
LSI_CA_OFFSET == 400000

-----------------------------------------------------------------------------
(* calculateSoftening: 1. initial state (mg/L as CaCO3) *)

rawCa(d) == Mul(d.calcium, CA_TO_CACO3)
rawMg(d) == Mul(d.magnesium, MG_TO_CACO3)
rawHardness(d) == rawCa(d) + rawMg(d)
rawAlk(d) == d.alkalinity

co2_as_CaCO3(d) == Mul(rawAlk(d), Pow10(PK1 - d.ph))

(* 2. targets *)
targetCa(d) == d.targetCa
targetMg(d) == d.targetMg

(* 3. dosages *)
carbonateHardness(d) == Min(rawHardness(d), rawAlk(d))
\* faulty variant: all carbonate hardness apportioned to calcium
caCH_Unbounded(d) == carbonateHardness(d)
caCH(d) == Min(rawCa(d), carbonateHardness(d))
mgCH(d) == Max(0, carbonateHardness(d) - caCH(d))

caToRemove(d) == Max(0, rawCa(d) - targetCa(d))
mgToRemove(d) == Max(0, rawMg(d) - targetMg(d))

\* faulty variant: the calcium to remove in place of the calcium carbonate hardness
basicLimeDemand_CaToRemove(d) ==
  co2_as_CaCO3(d) + Min(caCH(d), caToRemove(d)) + (2 * mgCH(d))
basicLimeDemand(d) == co2_as_CaCO3(d) + caCH(d) + (2 * mgCH(d))

mgNCH(d) == Max(0, rawMg(d) - mgCH(d))
\* faulty variant: the outer clamp left out
mgNCHToRemove_Unclamped(d) ==
  mgNCH(d) - (targetMg(d) - Max(0, mgCH(d) - mgToRemove(d)))
\* faulty variant: the inner clamp left out
mgNCHToRemove_NoInnerClamp(d) ==
  Max(0, mgNCH(d) - (targetMg(d) - (mgCH(d) - mgToRemove(d))))
mgNCHToRemove(d) ==
  Max(0, mgNCH(d) - (targetMg(d) - Max(0, mgCH(d) - mgToRemove(d))))

\* faulty variant: the threshold taken inclusive
excessLime_Inclusive(d) ==
  IF targetMg(d) <= MG_THRESHOLD_LIME THEN EXCESS_LIME ELSE 0
excessLime(d) == IF targetMg(d) < MG_THRESHOLD_LIME THEN EXCESS_LIME ELSE 0

\* limeDemand_CaCO3 after its two += updates
limeDemand_CaCO3(d) == basicLimeDemand(d) + mgNCHToRemove(d) + excessLime(d)

limeDose(d) == Mul(Div(limeDemand_CaCO3(d), CACO3_MW), CAOH2_MW)

rawNCH(d) == Max(0, rawHardness(d) - rawAlk(d))
\* faulty variant: the clamp left out
sodaAshDemand_Unclamped(d) ==
  (rawHardness(d) - targetCa(d) - targetMg(d)) - rawAlk(d)
\* faulty variant: the magnesium target left out of the hardness to remove
sodaAshDemand_NoMgTarget(d) ==
  Max(0, (rawHardness(d) - targetCa(d)) - rawAlk(d))
\* faulty variant: all raw non-carbonate hardness, whatever the targets
sodaAshDemand_AllNCH(d) == rawNCH(d)
\* faulty variant: sulphate counted as hardness that soda ash has to remove
sodaAshDemand_WithSulphate(d) ==
  Max(0, (rawHardness(d) - targetCa(d) - targetMg(d)) - rawAlk(d) + d.sulphate)
sodaAshDemand_CaCO3(d) ==
  Max(0, (rawHardness(d) - targetCa(d) - targetMg(d)) - rawAlk(d))
\* faulty variant: the molar mass of lime in place of that of soda ash
sodaAshDose_WrongMW(d) == Mul(Div(sodaAshDemand_CaCO3(d), CACO3_MW), CAOH2_MW)
sodaAshDose(d) == Mul(Div(sodaAshDemand_CaCO3(d), CACO3_MW), NA2CO3_MW)

(* 4. final water quality estimates *)
\* faulty variant: the finished calcium capped at the raw calcium
softenedCa_Capped(d) == Min(targetCa(d), rawCa(d))
softenedCa(d) == targetCa(d)
softenedMg(d) == targetMg(d)
softenedHardness(d) == softenedCa(d) + softenedMg(d)

\* faulty variant: the floor left out
softenedAlk_NoFloor(d) ==
  rawAlk(d) + sodaAshDemand_CaCO3(d) - (rawHardness(d) - softenedHardness(d))
softenedAlk(d) ==
  Max(ALK_FLOOR,
      rawAlk(d) + sodaAshDemand_CaCO3(d) - (rawHardness(d) - softenedHardness(d)))

\* faulty variant: the threshold taken inclusive
softenedPh_Inclusive(d) ==
  IF targetMg(d) <= MG_THRESHOLD_PH THEN PH_HIGH_LIME ELSE PH_ORDINARY
softenedPh(d) ==
  IF targetMg(d) < MG_THRESHOLD_PH THEN PH_HIGH_LIME ELSE PH_ORDINARY

(* 5. sludge production *)
sludgeCa(d) == rawCa(d) - softenedCa(d)
sludgeMg(d) == Mul(rawMg(d) - softenedMg(d), Div(MGOH2_MW, CACO3_MW))
sludgeProduced(d) == sludgeCa(d) + sludgeMg(d)

(* 6. stability indices *)
TDS(d) == Mul(d.conductivity, TDS_FACTOR)
\* faulty variant: the temperature left in degrees Celsius
tempK_Celsius(d) == d.temperature
tempK(d) == d.temperature + KELVIN_OFFSET
LsiA(d) == XDivPos(XSub(Log10(TDS(d)), Fin(Num(1))), Num(10))
LsiB(d) == XAdd(XMulNeg(-LSI_TEMP_SLOPE, Log10(tempK(d))), Fin(LSI_TEMP_OFFSET))
LsiC(d) == XSub(Log10(softenedCa(d)), Fin(LSI_CA_OFFSET))
LsiD(d) == Log10(softenedAlk(d))
phs(d) == XSub(XAdd(XAdd(Fin(LSI_BASE), LsiA(d)), LsiB(d)), XAdd(LsiC(d), LsiD(d)))
lsiOf(sPh, p) == XSub(Fin(sPh), p)
lsi(d) == lsiOf(softenedPh(d), phs(d))

\* faulty variant: the difference taken the other way round
ccppOf_SignSlip(l, sAlk) ==
  IF XPositive(l) THEN Mul(sAlk, XPow10(XNeg(l))[2] - Num(1)) ELSE 0
\* lsi > 0 ? softenedAlk * (1 - Math.pow(10, -lsi)) : 0
ccppOf(l, sAlk) ==
  IF XPositive(l) THEN Mul(sAlk, Num(1) - XPow10(XNeg(l))[2]) ELSE 0

\* the local constants at the return statement
softeningLocals(d) ==
  [ rawCa |-> rawCa(d), rawMg |-> rawMg(d), rawHardness |-> rawHardness(d),
    rawAlk |-> rawAlk(d), co2_as_CaCO3 |-> co2_as_CaCO3(d),
    carbonateHardness |-> carbonateHardness(d), caCH |-> caCH(d),
    mgCH |-> mgCH(d), caToRemove |-> caToRemove(d),
    mgToRemove |-> mgToRemove(d), mgNCH |-> mgNCH(d),
    mgNCHToRemove |-> mgNCHToRemove(d), excessLime |-> excessLime(d),
    limeDemand_CaCO3 |-> limeDemand_CaCO3(d), rawNCH |-> rawNCH(d),
    sodaAshDemand_CaCO3 |-> sodaAshDemand_CaCO3(d) ]

\* the returned SofteningResults
calculateSoftening(d) ==
  LET sAlk == softenedAlk(d)
      l == lsi(d)
  IN  [ limeDose |-> limeDose(d),
        sodaAshDose |-> sodaAshDose(d),
        softenedPh |-> softenedPh(d),
        softenedCa |-> softenedCa(d),
        softenedMg |-> softenedMg(d),
        softenedHardness |-> softenedHardness(d),
        softenedAlkalinity |-> sAlk,
        sludgeProduced |-> sludgeProduced(d),
        lsi |-> l,
        ccpp |-> ccppOf(l, sAlk),
        initialHardness |-> rawHardness(d) ]

-----------------------------------------------------------------------------
(* The samples calculateSoftening is applied to *)

\* grid bounds: calcium = 40 k, magnesium = 25 k, alkalinity = 110 k
MaxCaStep == 2
MaxMgStep == 2
MaxAlkStep == 3

FieldNames ==
  { "ph", "calcium", "magnesium", "alkalinity", "conductivity", "sulphate",
    "temperature", "targetCa", "targetMg" }

\* the values a field may take in a sample whose other fields are those of d;
\* the targets include the raw equivalents of d and values above them
FieldValues(name, d) ==
  CASE name = "ph" -> { Milli(6500), Milli(7800) }
    [] name = "calcium" -> { Num(40 * k) : k \in 0..MaxCaStep }
    [] name = "magnesium" -> { Num(25 * k) : k \in 0..MaxMgStep }
    [] name = "alkalinity" -> { Num(110 * k) : k \in 0..MaxAlkStep }
    [] name = "conductivity" -> { Num(-10), 0, Num(650) }
    [] name = "sulphate" -> { 0, Num(45) }
    [] name = "temperature" -> { Num(5), Num(20) }
    [] name = "targetCa" -> { 0, Num(5), Num(40), Num(300), rawCa(d) }
    [] name = "targetMg" ->
         { Num(10), Milli(39900), Num(40), Num(250), rawMg(d) }

\* the initial inputs of App
DefaultInputs ==
  [ ph |-> Milli(7800), calcium |-> Num(80), magnesium |-> Num(25),
    alkalinity |-> Num(220), conductivity |-> Num(650), sulphate |-> Num(45),
    temperature |-> Num(20), targetCa |-> Num(40), targetMg |-> Num(10) ]

Samples ==
  { d \in [ ph : FieldValues("ph", DefaultInputs),
            calcium : FieldValues("calcium", DefaultInputs),
            magnesium : FieldValues("magnesium", DefaultInputs),
            alkalinity : FieldValues("alkalinity", DefaultInputs),
            conductivity : FieldValues("conductivity", DefaultInputs),
            sulphate : FieldValues("sulphate", DefaultInputs),
            temperature : FieldValues("temperature", DefaultInputs),
            targetCa : { 0, Num(5), Num(40), Num(300) }
                         \cup { Mul(Num(40 * k), CA_TO_CACO3) : k \in 0..MaxCaStep },
            targetMg : { Num(10), Milli(39900), Num(40), Num(250) }
                         \cup { Mul(Num(25 * k), MG_TO_CACO3) : k \in 0..MaxMgStep } ] :
      /\ d.targetCa \in FieldValues("targetCa", d)
      /\ d.targetMg \in FieldValues("targetMg", d) }

NoResults ==
  [ limeDose |-> 0, sodaAshDose |-> 0, softenedPh |-> 0, softenedCa |-> 0,
    softenedMg |-> 0, softenedHardness |-> 0, softenedAlkalinity |-> 0,
    sludgeProduced |-> 0, lsi |-> NaN, ccpp |-> 0, initialHardness |-> 0 ]

NoLocals ==
  [ rawCa |-> 0, rawMg |-> 0, rawHardness |-> 0, rawAlk |-> 0,
    co2_as_CaCO3 |-> 0, carbonateHardness |-> 0, caCH |-> 0, mgCH |-> 0,
    caToRemove |-> 0, mgToRemove |-> 0, mgNCH |-> 0, mgNCHToRemove |-> 0,
    excessLime |-> 0, limeDemand_CaCO3 |-> 0, rawNCH |-> 0,
    sodaAshDemand_CaCO3 |-> 0 ]

-----------------------------------------------------------------------------
(* App: text handling *)

DigitChars == <<"0", "1", "2", "3", "4", "5", "6", "7", "8", "9">>

IsDigit(c) == \E k \in 1..Len(DigitChars) : DigitChars[k] = c
DigitValue(c) == (CHOOSE k \in 1..Len(DigitChars) : DigitChars[k] = c) - 1

\* the index of the first character of t at or after i that is not a blank
RECURSIVE SkipBlanks(_, _)
SkipBlanks(t, i) ==
  IF i <= Len(t) /\ t[i] = " " THEN SkipBlanks(t, i + 1) ELSE i

\* the run of digits of t from i on: its value, its length, the index after it
RECURSIVE ReadDigits(_, _, _, _)
ReadDigits(t, i, acc, n) ==
  IF i <= Len(t) /\ IsDigit(t[i])
  THEN ReadDigits(t, i + 1, acc * 10 + DigitValue(t[i]), n + 1)
  ELSE [value |-> acc, count |-> n, next |-> i]

\* parseFloat(t) for a text t, a sequence of characters: blanks, a sign, digits,
\* a point and digits; what follows is ignored; NaN where no digit is found.
\* Exponents and the literal Infinity are not among the texts of the model.
parseFloat(t) ==
  LET start == SkipBlanks(t, 1)
      signed == start <= Len(t) /\ t[start] \in {"+", "-"}
      sign == IF signed /\ t[start] = "-" THEN -1 ELSE 1
      whole == ReadDigits(t, IF signed THEN start + 1 ELSE start, 0, 0)
      pointed == whole.next <= Len(t) /\ t[whole.next] = "."
      frac == IF pointed THEN ReadDigits(t, whole.next + 1, 0, 0)
              ELSE [value |-> 0, count |-> 0, next |-> whole.next]
  IN  IF whole.count + frac.count = 0 THEN NaN
      ELSE Fin(sign * (Num(whole.value) + ShiftDec(Num(frac.value), -frac.count)))

\* x || 0 for a number x: 0 for NaN and for 0
OrZero(x) == IF IsNaN(x) \/ x = Fin(0) THEN 0 ELSE x[2]

\* msg.includes(pat), on texts given word by word
includes(msg, pat) ==
  \E i \in 1..(Len(msg) - Len(pat) + 1) : SubSeq(msg, i, i + Len(pat) - 1) = pat

-----------------------------------------------------------------------------
(* getSofteningAdvice *)

ERROR_KEY_REQUIRED == <<"ERROR_KEY_REQUIRED">>
NotConfiguredText ==
  <<"API", "Key", "is", "not", "configured.", "Please", "ensure", "you", "have",
    "selected", "a", "key", "if", "prompted.">>
NoInsightsText == <<"No", "insights", "generated.">>
ErrorPrefix == <<"Error", "generating", "insights:">>
EntityNotFound == <<"entity", "was", "not", "found">>
ApiKeyWords == <<"API", "key">>

\* a settled promise
Fulfilled(v) == [state |-> "fulfilled", value |-> v]
Rejected == [state |-> "rejected", value |-> << >>]

\* what ai.models.generateContent can come to: a response with a text or
\* without one, an Error with a message, a thrown value without properties
RemoteOutcomes ==
  { [kind |-> "text", text |-> <<"Recarbonate", "to", "pH", "8.5">>],
    [kind |-> "text", text |-> << >>],
    [kind |-> "error", text |-> <<"Failed", "to", "fetch">>],
    [kind |-> "error", text |-> <<"API", "key", "not", "valid.">>],
    [kind |-> "error", text |-> <<"Requested", "entity", "was", "not", "found.">>],
    [kind |-> "error", text |-> << >>],
    [kind |-> "nullish", text |-> << >>] }
NotCalled == [kind |-> "notCalled", text |-> << >>]

\* error.message || String(error)
errorMessage(o) == IF o.text = << >> THEN <<"Error">> ELSE o.text

\* faulty variant: a failure of the remote call passed on to the caller
getSofteningAdvice_Rethrow(key, o) ==
  IF key = "" THEN Fulfilled(NotConfiguredText)
  ELSE IF o.kind = "text"
       THEN Fulfilled(IF o.text = << >> THEN NoInsightsText ELSE o.text)
       ELSE Rejected

\* the promise getSofteningAdvice returns, for the key of the environment and
\* the outcome o of the remote call (not made without a key)
getSofteningAdvice(key, o) ==
  IF key = "" THEN Fulfilled(NotConfiguredText)
  ELSE CASE o.kind = "text" ->
              Fulfilled(IF o.text = << >> THEN NoInsightsText ELSE o.text)
         [] o.kind = "error" ->
              LET msg == errorMessage(o)
              IN  IF includes(msg, EntityNotFound) \/ includes(msg, ApiKeyWords)
                  THEN Fulfilled(ERROR_KEY_REQUIRED)
                  ELSE Fulfilled(ErrorPrefix \o msg)
         [] OTHER -> Rejected

-----------------------------------------------------------------------------
(* App: rendering *)

\* the conversion factors of the chart
CHART_CA_FACTOR == 2497000
CHART_MG_FACTOR == 4118000

chartData(inp, res) ==
  << [parameter |-> "Calcium", raw |-> Mul(inp.calcium, CHART_CA_FACTOR),
      softened |-> res.softenedCa],
     [parameter |-> "Magnesium", raw |-> Mul(inp.magnesium, CHART_MG_FACTOR),
      softened |-> res.softenedMg],
     [parameter |-> "Hardness", raw |-> res.initialHardness,
      softened |-> res.softenedHardness],
     [parameter |-> "Alkalinity", raw |-> inp.alkalinity,
      softened |-> res.softenedAlkalinity] >>

\* faulty variant: an empty dependency list, the first results kept for good
useMemo_NoDeps(m, ref, inp) == m

\* the two useMemo cells after a render with the inputs object ref: results
\* are computed anew only for a new inputs object, chartData only for new
\* inputs or results
useMemo(m, ref, inp) ==
  IF m.deps = ref THEN m
  ELSE LET res == calculateSoftening(inp)
       IN  [deps |-> ref, results |-> res, chartData |-> chartData(inp, res)]

\* the screen App returns
View(hk) ==
  CASE hk = "null" -> "booting"
    [] hk = "false" -> "keySelection"
    [] OTHER -> "main"

NoAdvice == << >>

\* App after its first render, the key check not yet answered
AppMounted ==
  /\ inputs = DefaultInputs
  /\ inputsRef = 0
  /\ memo = [deps |-> 0, results |-> calculateSoftening(DefaultInputs),
             chartData |-> chartData(DefaultInputs,
                                     calculateSoftening(DefaultInputs))]
  /\ aiInsights = << >>
  /\ loadingInsights = FALSE
  /\ hasKey = "null"
  /\ requests = << >>
  /\ issued = 0
  /\ lastAdvice = NoAdvice
  /\ dialog = FALSE

\* App out of the picture: calculateSoftening called on its own
AppIdle ==
  /\ AppMounted
  /\ apiKey = ""
  /\ aistudio = FALSE

-----------------------------------------------------------------------------
(* calculateSoftening called on single samples *)

Init ==
  /\ AppIdle
  /\ data \in Samples
  /\ results = NoResults
  /\ locals = NoLocals
  /\ pc = "ready"
  /\ prev = << >>

\* faulty variant: the lime dose accumulated in a variable that outlives the call
Calculate_Accumulating ==
  /\ pc = "ready"
  /\ results' = [calculateSoftening(data) EXCEPT
                   !.limeDose = @ + (IF prev = << >> THEN 0
                                     ELSE prev[Len(prev)].out.limeDose)]
  /\ locals' = softeningLocals(data)
  /\ pc' = "done"
  /\ UNCHANGED <<data, prev, appVars>>

\* one call of calculateSoftening on the current sample
Calculate ==
  /\ pc = "ready"
  /\ results' = calculateSoftening(data)
  /\ locals' = softeningLocals(data)
  /\ pc' = "done"
  /\ UNCHANGED <<data, prev, appVars>>

\* the caller hands over a second sample, equal to the first but for one field
Resample(name, v) ==
  /\ pc = "done"
  /\ prev = << >>
  /\ prev' = << [in |-> data, out |-> results, loc |-> locals] >>
  /\ data' = [data EXCEPT ![name] = v]
  /\ pc' = "ready"
  /\ UNCHANGED <<results, locals, appVars>>

Next == Calculate

Spec == Init /\ [][Next]_vars

\* the first samples of the runs that compare two calls
PairSamples ==
  { d \in Samples : /\ d.ph = DefaultInputs.ph
                    /\ d.conductivity = DefaultInputs.conductivity
                    /\ d.sulphate = DefaultInputs.sulphate
                    /\ d.temperature = DefaultInputs.temperature }

InitPair ==
  /\ AppIdle
  /\ data \in PairSamples
  /\ results = NoResults
  /\ locals = NoLocals
  /\ pc = "ready"
  /\ prev = << >>

NextPair ==
  \/ Calculate
  \/ \E name \in FieldNames : \E v \in FieldValues(name, data) : Resample(name, v)

SpecPair == InitPair /\ [][NextPair]_vars

\* the number of earlier calls that a run of repeated calls keeps
MaxPrev == 2

\* values outside the physical range that a caller may still hand over
OutOfRange(name) ==
  CASE name = "alkalinity" -> { Num(-110) }
    [] name = "targetCa" -> { Num(-5) }
    [] OTHER -> { }

\* the caller invokes calculateSoftening again, on a sample that is the same
\* or differs in one field; the finished call is kept
Reinvoke(name, v) ==
  /\ pc = "done"
  /\ Len(prev) < MaxPrev
  /\ prev' = Append(prev, [in |-> data, out |-> results, loc |-> locals])
  /\ data' = [data EXCEPT ![name] = v]
  /\ pc' = "ready"
  /\ UNCHANGED <<results, locals, appVars>>

InitCalls ==
  /\ AppIdle
  /\ data = DefaultInputs
  /\ results = NoResults
  /\ locals = NoLocals
  /\ pc = "ready"
  /\ prev = << >>

NextCalls ==
  \/ Calculate
  \/ \E name \in FieldNames :
       \E v \in FieldValues(name, data) \cup OutOfRange(name) : Reinvoke(name, v)

SpecCalls == InitCalls /\ [][NextCalls]_vars

-----------------------------------------------------------------------------
(* App: handlers *)

\* the number of input edits and of advice requests in a run
MaxEdits == 2
MaxRequests == 2

PresentKey == "AIza"

\* the edits of a run: a field and the text typed into its control, character
\* by character (an empty text, numbers, a number followed by a letter)
Edits ==
  { <<"calcium", << >> >>,
    <<"ph", <<"6", ".", "5">> >>,
    <<"conductivity", <<"-", "1", "0">> >>,
    <<"targetCa", <<" ", "5", "x">> >>,
    <<"targetMg", <<"4", "0">> >> }

\* the rest of this render's state is as it was
AppFrame(changed) ==
  /\ "inputs" \in changed \/ UNCHANGED <<inputs, inputsRef>>
  /\ "aiInsights" \in changed \/ UNCHANGED aiInsights
  /\ "loadingInsights" \in changed \/ UNCHANGED loadingInsights
  /\ "hasKey" \in changed \/ UNCHANGED hasKey
  /\ "requests" \in changed \/ UNCHANGED <<requests, issued>>
  /\ "lastAdvice" \in changed \/ UNCHANGED lastAdvice
  /\ "apiKey" \in changed \/ UNCHANGED apiKey
  /\ "dialog" \in changed \/ UNCHANGED dialog
  /\ UNCHANGED aistudio
  /\ UNCHANGED <<data, results, locals, pc, prev>>

\* the value checkKey hands to setHasKey: the answer of hasSelectedApiKey,
\* true where the platform has no such function or the call fails
checkKey(answer) == IF answer = "notSelected" THEN "false" ELSE "true"

\* the effect run on mount has its answer
CheckKey(answer) ==
  /\ hasKey = "null"
  /\ answer \in (IF aistudio THEN {"selected", "notSelected", "failed"}
                 ELSE {"unsupported"})
  /\ hasKey' = checkKey(answer)
  /\ memo' = useMemo(memo, inputsRef, inputs)
  /\ AppFrame({"hasKey"})

\* 'Select API Key' on the key-selection screen: openSelectKey is called
HandleOpenKey ==
  /\ hasKey = "false"
  /\ aistudio
  /\ ~dialog
  /\ dialog' = TRUE
  /\ memo' = useMemo(memo, inputsRef, inputs)
  /\ AppFrame({"dialog"})

\* openSelectKey has settled: resolved (a key may now be in the environment)
\* or rejected
OpenKeySettled(resolved) ==
  /\ dialog
  /\ dialog' = FALSE
  /\ IF resolved
     THEN /\ hasKey' = "true"
          /\ apiKey' \in {apiKey, PresentKey}
     ELSE UNCHANGED <<hasKey, apiKey>>
  /\ memo' = useMemo(memo, inputsRef, inputs)
  /\ AppFrame({"dialog", "hasKey", "apiKey"})

\* the settings button of the main view
ResetKey ==
  /\ hasKey = "true"
  /\ hasKey' = "false"
  /\ memo' = useMemo(memo, inputsRef, inputs)
  /\ AppFrame({"hasKey"})

\* faulty variant: the initial inputs spread in place of prev
handleInputChange_DefaultsSpread(prevInputs, name, text) ==
  [DefaultInputs EXCEPT ![name] = OrZero(parseFloat(text))]

\* the field of prev that handleInputChange replaces
handleInputChange(prevInputs, name, text) ==
  [prevInputs EXCEPT ![name] = OrZero(parseFloat(text))]

\* an edit of the control of one field, and the render that follows
HandleInputChange(name, text) ==
  /\ hasKey = "true"
  /\ inputsRef < MaxEdits
  /\ inputs' = handleInputChange(inputs, name, text)
  /\ inputsRef' = inputsRef + 1
  /\ memo' = useMemo(memo, inputsRef', inputs')
  /\ AppFrame({"inputs"})

\* faulty variant: every fulfilled value stored as advice text
adviceReceived_StoresAll(p, ai, hk) ==
  IF p.state = "rejected" THEN [aiInsights |-> ai, hasKey |-> hk]
  ELSE [aiInsights |-> p.value,
        hasKey |-> IF p.value = ERROR_KEY_REQUIRED THEN "false" ELSE hk]

\* fetchInsights after its await: what setHasKey and setAiInsights leave,
\* for the settled promise p
adviceReceived(p, ai, hk) ==
  IF p.state = "rejected" THEN [aiInsights |-> ai, hasKey |-> hk]
  ELSE IF p.value = ERROR_KEY_REQUIRED
       THEN [aiInsights |-> ai, hasKey |-> "false"]
       ELSE [aiInsights |-> p.value, hasKey |-> hk]

\* the record kept of a finished request
Finished(key, o, p) ==
  << [key |-> key, remote |-> o, promise |-> p, aiBefore |-> aiInsights] >>

\* faulty variant: the button left enabled while a request is under way
FetchInsights_NoGuard ==
  /\ hasKey = "true"
  /\ issued < MaxRequests
  /\ issued' = issued + 1
  /\ IF apiKey = ""
     THEN LET p == getSofteningAdvice(apiKey, NotCalled)
              after == adviceReceived(p, aiInsights, hasKey)
          IN  /\ aiInsights' = after.aiInsights
              /\ hasKey' = after.hasKey
              /\ loadingInsights' = FALSE
              /\ lastAdvice' = Finished(apiKey, NotCalled, p)
              /\ requests' = requests
     ELSE /\ requests' = Append(requests, [key |-> apiKey, input |-> inputs,
                                           output |-> memo.results])
          /\ loadingInsights' = TRUE
          /\ UNCHANGED <<aiInsights, hasKey, lastAdvice>>
  /\ memo' = useMemo(memo, inputsRef, inputs)
  /\ AppFrame({"aiInsights", "hasKey", "loadingInsights", "lastAdvice",
               "requests"})

\* 'AI Insights': fetchInsights up to its await.  Without a key
\* getSofteningAdvice returns at once, and the rest of fetchInsights runs
\* before any other event; with a key the remote call is under way.
FetchInsights ==
  /\ hasKey = "true"
  /\ ~loadingInsights
  /\ issued < MaxRequests
  /\ issued' = issued + 1
  /\ IF apiKey = ""
     THEN LET p == getSofteningAdvice(apiKey, NotCalled)
              after == adviceReceived(p, aiInsights, hasKey)
          IN  /\ aiInsights' = after.aiInsights
              /\ hasKey' = after.hasKey
              /\ loadingInsights' = FALSE
              /\ lastAdvice' = Finished(apiKey, NotCalled, p)
              /\ requests' = requests
     ELSE /\ requests' = Append(requests, [key |-> apiKey, input |-> inputs,
                                           output |-> memo.results])
          /\ loadingInsights' = TRUE
          /\ UNCHANGED <<aiInsights, hasKey, lastAdvice>>
  /\ memo' = useMemo(memo, inputsRef, inputs)
  /\ AppFrame({"aiInsights", "hasKey", "loadingInsights", "lastAdvice",
               "requests"})

\* faulty variant: no finally clause, a rejected promise leaves the flag set
AdviceSettled_NoFinally(i, o) ==
  /\ i \in 1..Len(requests)
  /\ LET p == getSofteningAdvice(requests[i].key, o)
         after == adviceReceived(p, aiInsights, hasKey)
     IN  /\ aiInsights' = after.aiInsights
         /\ hasKey' = after.hasKey
         /\ lastAdvice' = Finished(requests[i].key, o, p)
         /\ loadingInsights' = (p.state = "rejected")
  /\ requests' = SubSeq(requests, 1, i - 1) \o SubSeq(requests, i + 1, Len(requests))
  /\ issued' = issued
  /\ memo' = useMemo(memo, inputsRef, inputs)
  /\ AppFrame({"aiInsights", "hasKey", "loadingInsights", "lastAdvice",
               "requests"})

\* the remote call of request i ends with outcome o: getSofteningAdvice
\* settles and fetchInsights runs to its end
AdviceSettled(i, o) ==
  /\ i \in 1..Len(requests)
  /\ LET p == getSofteningAdvice(requests[i].key, o)
         after == adviceReceived(p, aiInsights, hasKey)
     IN  /\ aiInsights' = after.aiInsights
         /\ hasKey' = after.hasKey
         /\ lastAdvice' = Finished(requests[i].key, o, p)
  /\ loadingInsights' = FALSE
  /\ requests' = SubSeq(requests, 1, i - 1) \o SubSeq(requests, i + 1, Len(requests))
  /\ issued' = issued
  /\ memo' = useMemo(memo, inputsRef, inputs)
  /\ AppFrame({"aiInsights", "hasKey", "loadingInsights", "lastAdvice",
               "requests"})

InitApp ==
  /\ data = DefaultInputs
  /\ results = NoResults
  /\ locals = NoLocals
  /\ pc = "ready"
  /\ prev = << >>
  /\ AppMounted
  /\ apiKey \in {"", PresentKey}
  /\ aistudio \in BOOLEAN

NextApp ==
  \/ \E answer \in {"selected", "notSelected", "failed", "unsupported"} :
       CheckKey(answer)
  \/ HandleOpenKey
  \/ \E resolved \in BOOLEAN : OpenKeySettled(resolved)
  \/ ResetKey
  \/ \E e \in Edits : HandleInputChange(e[1], e[2])
  \/ FetchInsights
  \/ \E i \in 1..Len(requests) : \E o \in RemoteOutcomes : AdviceSettled(i, o)

SpecApp == InitApp /\ [][NextApp]_vars

\* the remote call of some request under way ends
AdviceReplies ==
  \E i \in 1..Len(requests) : \E o \in RemoteOutcomes : AdviceSettled(i, o)

\* App where every remote call ends: the promise of generateContent settles,
\* and the rest of fetchInsights is then run from the microtask queue
SpecAppReplies == InitApp /\ [][NextApp]_vars /\ WF_vars(AdviceReplies)

\* App where the key check is answered, the user on the key-selection screen
\* activates 'Select API Key', and the key dialog, opened often enough, is
\* once completed
SpecAppKeys ==
  /\ InitApp
  /\ [][NextApp]_vars
  /\ WF_vars(\E answer \in {"selected", "notSelected", "failed", "unsupported"} :
               CheckKey(answer))
  /\ WF_vars(HandleOpenKey)
  /\ SF_vars(OpenKeySettled(TRUE))

-----------------------------------------------------------------------------
(* App: the input controls on their own *)

\* the texts typed into the control of a field: for ph numbers, for the other
\* fields an empty text, letters, a number, a number between a blank and a
\* letter
EditTexts(name) ==
  IF name = "ph"
  THEN { <<"6", ".", "5">>, <<"7", ".", "2", "5">> }
  ELSE { << >>, <<"a", "b", "c">>, <<"4", "0">>, <<" ", "5", "x">> }

InitEdit ==
  /\ data = DefaultInputs
  /\ results = NoResults
  /\ locals = NoLocals
  /\ pc = "ready"
  /\ prev = << >>
  /\ AppMounted
  /\ apiKey = ""
  /\ aistudio = FALSE

NextEdit ==
  \/ CheckKey("unsupported")
  \/ \E name \in FieldNames :
       \E text \in EditTexts(name) : HandleInputChange(name, text)

SpecEdit == InitEdit /\ [][NextEdit]_vars

-----------------------------------------------------------------------------
(* Properties of calculateSoftening *)

Done == pc = "done"

\* |x - centre| <= tol
Within(x, centre, tol) == Abs(x - centre) <= tol

\* concentrations, alkalinity, conductivity and targets are not negative
NonNegativeSample(d) ==
  /\ d.calcium >= 0 /\ d.magnesium >= 0 /\ d.alkalinity >= 0
  /\ d.conductivity >= 0 /\ d.sulphate >= 0
  /\ d.targetCa >= 0 /\ d.targetMg >= 0

\* a valid sample: nothing negative, each target at most its raw equivalent
ValidSample(d) ==
  /\ NonNegativeSample(d)
  /\ d.targetCa <= Mul(d.calcium, CA_TO_CACO3)
  /\ d.targetMg <= Mul(d.magnesium, MG_TO_CACO3)

\* C1: for every sample the returned softenedCa is targetCa and softenedMg is
\* targetMg, unchanged, and softenedHardness is their sum.
C1_TargetsCopied ==
  Done =>
    /\ results.softenedCa = data.targetCa
    /\ results.softenedMg = data.targetMg
    /\ results.softenedHardness = data.targetCa + data.targetMg

\* a call whose calcium target lies above the raw calcium and is still returned
C1_Witness ==
  /\ Done
  /\ data.targetCa > locals.rawCa
  /\ data.targetMg > locals.rawMg
  /\ results.softenedCa = data.targetCa
  /\ results.softenedHardness > locals.rawHardness

\* C2: for every valid sample limeDose, sodaAshDose and sludgeProduced are
\* not negative.
C2_ValidDosesNonNegative ==
  (Done /\ ValidSample(data)) =>
    /\ results.limeDose >= 0
    /\ results.sodaAshDose >= 0
    /\ results.sludgeProduced >= 0

\* a valid sample with soda ash, lime and sludge all above zero, and one whose
\* alkalinity exceeds the hardness to remove is covered by the same runs
C2_Witness ==
  /\ Done
  /\ ValidSample(data)
  /\ results.limeDose > 0
  /\ results.sodaAshDose > 0
  /\ results.sludgeProduced > 0

\* C3: for every valid sample softenedAlkalinity is at least 20.
C3_AlkalinityFloor ==
  (Done /\ ValidSample(data)) => results.softenedAlkalinity >= Num(20)

\* a valid sample whose alkalinity balance lies below 20 and is raised to 20
C3_Witness ==
  /\ Done
  /\ ValidSample(data)
  /\ locals.rawAlk + locals.sodaAshDemand_CaCO3
       - (locals.rawHardness - results.softenedHardness) < Num(20)
  /\ results.softenedAlkalinity = Num(20)

\* C4: for every sample ccpp is 0 whenever lsi <= 0, and ccpp > 0 whenever
\* lsi > 0 and softenedAlkalinity > 0.
C4_CcppSign ==
  Done =>
    /\ XNonPositive(results.lsi) => results.ccpp = 0
    /\ (XPositive(results.lsi) /\ results.softenedAlkalinity > 0)
         => results.ccpp > 0

\* a scale-forming outcome: finite lsi > 0, 0 < ccpp < softenedAlkalinity
C4_Witness ==
  /\ Done
  /\ IsFin(results.lsi)
  /\ results.lsi[2] > 0
  /\ results.ccpp > 0
  /\ results.ccpp < results.softenedAlkalinity

\* the other side of C4: a finite lsi below 0 with ccpp 0
C4_WitnessCorrosive ==
  /\ Done
  /\ IsFin(results.lsi)
  /\ results.lsi[2] < 0
  /\ results.ccpp = 0

-----------------------------------------------------------------------------
(* Two calls on samples that differ in one field *)

HasPair == Done /\ prev # << >>

\* the two samples are equal in every field but name
DifferOnlyIn(name, d1, d2) ==
  /\ d1[name] # d2[name]
  /\ \A f \in FieldNames \ {name} : d1[f] = d2[f]

\* the two calls are on samples that differ only in targetMg, one below the
\* threshold of 40 and one at or above it
CrossesMgThreshold ==
  /\ HasPair
  /\ DifferOnlyIn("targetMg", prev[1].in, data)
  /\ (prev[1].in.targetMg < Num(40)) # (data.targetMg < Num(40))

\* of the two calls, the one with targetMg below 40, and the other one
BelowCall ==
  IF data.targetMg < Num(40)
  THEN [in |-> data, out |-> results, loc |-> locals]
  ELSE prev[1]
AboveCall ==
  IF data.targetMg < Num(40)
  THEN prev[1]
  ELSE [in |-> data, out |-> results, loc |-> locals]

\* C5 as stated: across the threshold softenedPh is 10.6 below and 9.8 at or
\* above 40, and the lime demand (as CaCO3) below exceeds the one above by
\* exactly 30.
C5_Original ==
  CrossesMgThreshold =>
    /\ BelowCall.out.softenedPh = Milli(10600)
    /\ AboveCall.out.softenedPh = Milli(9800)
    /\ BelowCall.loc.limeDemand_CaCO3 - AboveCall.loc.limeDemand_CaCO3
         = Num(30)

\* C5 amended: across the threshold softenedPh is 10.6 below and 9.8 at or
\* above 40, the excess lime is 30 below and 0 above, and the lime demand
\* below exceeds the one above by 30 plus the difference of the two
\* incremental magnesium terms mgNCHToRemove.
C5_ThresholdStep ==
  CrossesMgThreshold =>
    /\ BelowCall.out.softenedPh = Milli(10600)
    /\ AboveCall.out.softenedPh = Milli(9800)
    /\ BelowCall.loc.excessLime = Num(30)
    /\ AboveCall.loc.excessLime = 0
    /\ BelowCall.loc.limeDemand_CaCO3 - AboveCall.loc.limeDemand_CaCO3
         = Num(30)
             + (BelowCall.loc.mgNCHToRemove - AboveCall.loc.mgNCHToRemove)

\* targetMg 39.9 against 40.0 with non-carbonate magnesium left to remove:
\* the lime demands differ by 30.1
C5_Witness ==
  /\ CrossesMgThreshold
  /\ BelowCall.in.targetMg = Milli(39900)
  /\ AboveCall.in.targetMg = Num(40)
  /\ BelowCall.loc.limeDemand_CaCO3 - AboveCall.loc.limeDemand_CaCO3
       = Num(30) + Milli(100)

-----------------------------------------------------------------------------

\* C6: softenedPh is 10.6 or 9.8; it is 10.6 exactly when targetMg < 40; the
\* excess lime is 30 when softenedPh is 10.6 and 0 when it is 9.8.
C6_PhRegime ==
  Done =>
    /\ results.softenedPh \in {Milli(10600), Milli(9800)}
    /\ (results.softenedPh = Milli(10600)) <=> (data.targetMg < Num(40))
    /\ (results.softenedPh = Milli(10600)) => locals.excessLime = Num(30)
    /\ (results.softenedPh = Milli(9800)) => locals.excessLime = 0

\* the boundary itself: targetMg = 40 gives 9.8 and no excess lime
C6_Witness ==
  /\ Done
  /\ data.targetMg = Num(40)
  /\ results.softenedPh = Milli(9800)
  /\ locals.excessLime = 0

\* a target above its raw equivalent, nothing negative among the raw values
TargetExceedsRaw(d) ==
  /\ d.calcium >= 0 /\ d.magnesium >= 0 /\ d.alkalinity >= 0
  /\ \/ d.targetMg > Mul(d.magnesium, MG_TO_CACO3)
     \/ d.targetCa > Mul(d.calcium, CA_TO_CACO3)

\* C7: when a target exceeds the raw concentration, the incremental magnesium
\* term and the soda-ash demand are not negative, each is 0 where its
\* difference is below 0, and limeDose >= 0 and sodaAshDose >= 0.
C7_UnreachableTargetsClamped ==
  (Done /\ TargetExceedsRaw(data)) =>
    /\ locals.mgNCHToRemove >= 0
    /\ locals.sodaAshDemand_CaCO3 >= 0
    /\ (data.targetMg > locals.rawMg) => locals.mgNCHToRemove = 0
    /\ ((locals.rawHardness - data.targetCa - data.targetMg) - locals.rawAlk < 0)
         => locals.sodaAshDemand_CaCO3 = 0
    /\ results.limeDose >= 0
    /\ results.sodaAshDose >= 0

\* both targets above the raw values, with magnesium present: both differences
\* are below 0 and both terms are 0
C7_Witness ==
  /\ Done
  /\ data.magnesium > 0
  /\ data.targetMg > locals.rawMg
  /\ data.targetCa > locals.rawCa
  /\ locals.mgNCH > 0
  /\ locals.mgNCHToRemove = 0
  /\ locals.sodaAshDemand_CaCO3 = 0
  /\ results.limeDose > 0

\* C8 as stated: sludgeProduced >= 0 for every sample with non-negative
\* fields, also when a target exceeds its raw equivalent.
C8_SludgeNonNegative ==
  (Done /\ NonNegativeSample(data)) => results.sludgeProduced >= 0

C10_ReferenceSample ==
  (Done /\ data = DefaultInputs) =>
    /\ Within(results.sodaAshDose, Milli(34600), Milli(500))
    /\ results.softenedPh = Milli(10600)
    /\ results.softenedCa = Num(40)
    /\ results.softenedMg = Num(10)
    /\ results.softenedHardness = Num(50)
    /\ results.softenedAlkalinity = Num(20)
    /\ Within(results.sludgeProduced, Milli(213900), Milli(500))
    /\ Within(results.initialHardness, Milli(302700), Milli(500))

\* the reference sample has been computed
C10_Witness ==
  /\ Done
  /\ data = DefaultInputs
  /\ results.sodaAshDose > 0
  /\ results.initialHardness = locals.rawCa + locals.rawMg

-----------------------------------------------------------------------------

\* C11: the reference sample gives limeDose 259.7 +/- 0.5, lsi 1.47 +/- 0.05
\* and ccpp 19.3 to one decimal (+/- 0.05).
C11_ReferencePowLog ==
  (Done /\ data = DefaultInputs) =>
    /\ Within(results.limeDose, Milli(259700), Milli(500))
    /\ IsFin(results.lsi)
    /\ Within(results.lsi[2], Milli(1470), Milli(50))
    /\ Within(results.ccpp, Milli(19300), Milli(50))

\* the reference sample has been computed: carbon dioxide takes lime, the
\* water is scale-forming and part of its alkalinity can precipitate
C11_Witness ==
  /\ Done
  /\ data = DefaultInputs
  /\ locals.co2_as_CaCO3 > 0
  /\ locals.limeDemand_CaCO3 > locals.co2_as_CaCO3
  /\ XPositive(results.lsi)
  /\ results.ccpp > Num(19)
  /\ results.ccpp < results.softenedAlkalinity

-----------------------------------------------------------------------------

ResultFields ==
  { "limeDose", "sodaAshDose", "softenedPh", "softenedCa", "softenedMg",
    "softenedHardness", "softenedAlkalinity", "sludgeProduced", "lsi", "ccpp",
    "initialHardness" }

\* a number, finite or not
IsNumber(x) ==
  \/ x \in {PosInf, NegInf, NaN}
  \/ /\ DOMAIN x = 1..2
     /\ x[1] = "fin"
     /\ x[2] \in Int

\* a SofteningResults record: all eleven fields, each a number; only lsi can
\* be non-finite
IsSofteningResults(r) ==
  /\ DOMAIN r = ResultFields
  /\ \A f \in ResultFields \ {"lsi"} : r[f] \in Int
  /\ IsNumber(r.lsi)

C13_WitnessNegInf ==
  /\ Done
  /\ data.targetCa = 0
  /\ data.conductivity > 0
  /\ results.lsi = NegInf

\* +Infinity at a conductivity of 0, where ccpp is the whole finished alkalinity
C13_WitnessPosInf ==
  /\ Done
  /\ data.conductivity = 0
  /\ data.targetCa > 0
  /\ results.lsi = PosInf
  /\ results.ccpp = results.softenedAlkalinity

-----------------------------------------------------------------------------

\* C19: the soda-ash demand is max(0, (rawHardness - targetCa - targetMg) -
\* alkalinity) for every sample; sodaAshDose > 0 exactly when the hardness to
\* be removed exceeds the raw alkalinity; for targets that are not negative
\* the demand is at most the raw non-carbonate hardness.
C19_SodaAshDemand ==
  Done =>
    /\ locals.sodaAshDemand_CaCO3
         = Max(0, (locals.rawHardness - data.targetCa - data.targetMg)
                    - data.alkalinity)
    /\ (results.sodaAshDose > 0)
         <=> (locals.rawHardness - data.targetCa - data.targetMg > data.alkalinity)
    /\ (data.targetCa >= 0 /\ data.targetMg >= 0)
         => locals.sodaAshDemand_CaCO3
              <= Max(0, locals.rawHardness - data.alkalinity)

\* soda ash dosed for part of the raw non-carbonate hardness only
C19_Witness ==
  /\ Done
  /\ data.targetCa > 0
  /\ data.targetMg > 0
  /\ results.sodaAshDose > 0
  /\ locals.sodaAshDemand_CaCO3 < locals.rawNCH

\* non-carbonate hardness present and no soda ash, the targets leaving it in
C19_WitnessNoSoda ==
  /\ Done
  /\ locals.rawNCH > 0
  /\ locals.rawHardness - data.targetCa - data.targetMg <= data.alkalinity
  /\ results.sodaAshDose = 0

C20_WitnessCalciumOnly ==
  /\ Done
  /\ data.alkalinity > 0
  /\ locals.caCH < locals.rawCa
  /\ locals.mgCH = 0
  /\ locals.rawMg > 0

-----------------------------------------------------------------------------
(* Properties of App and of getSofteningAdvice *)

\* C14: in every state of App the memoized results are calculateSoftening of
\* the current inputs, the chart is drawn from them, and the results handed
\* to getSofteningAdvice were those of the inputs handed over with them.
C14_MemoAgrees ==
  LET direct == calculateSoftening(inputs)
  IN  /\ memo.results = direct
      /\ memo.chartData = chartData(inputs, direct)
      /\ \A i \in 1..Len(requests) :
           requests[i].output = calculateSoftening(requests[i].input)

\* two edits, one before and one after an advice request that is still under
\* way: the memoized results are those of the inputs as edited twice
C14_Witness ==
  /\ inputsRef = 2
  /\ memo.deps = 2
  /\ Len(requests) = 1
  /\ requests[1].input # DefaultInputs
  /\ requests[1].input # inputs
  /\ memo.results # requests[1].output
  /\ memo.results = calculateSoftening(inputs)

\* a request has just finished: its record is new
AdviceJustSettled == lastAdvice' # lastAdvice

\* C15 as stated: when an advice request finishes while the softening display
\* is shown, whatever its outcome, the display is still shown afterwards and
\* the results are those of the current inputs.
C15_AdviceNeverInterrupts ==
  [][ (AdviceJustSettled /\ View(hasKey) = "main") =>
        /\ View(hasKey') = "main"
        /\ memo'.results = calculateSoftening(inputs') ]_vars

\* C16 as stated: a call of getSofteningAdvice without a key returns the
\* sentinel ERROR_KEY_REQUIRED and makes no remote call.
C16_AbsentKeySentinel ==
  \A i \in 1..Len(lastAdvice) :
    lastAdvice[i].key = "" =>
      /\ lastAdvice[i].promise = Fulfilled(ERROR_KEY_REQUIRED)
      /\ lastAdvice[i].remote = NotCalled

\* C17 as stated: whenever the remote call fails with an error, the promise is
\* fulfilled with the error text carrying the message, and that text is the
\* advice on display.
C17_Original ==
  \A i \in 1..Len(lastAdvice) :
    lastAdvice[i].remote.kind = "error" =>
      /\ lastAdvice[i].promise
           = Fulfilled(ErrorPrefix \o errorMessage(lastAdvice[i].remote))
      /\ aiInsights = ErrorPrefix \o errorMessage(lastAdvice[i].remote)

\* the message names the key or a missing entity
KeyMessage(msg) ==
  \/ includes(msg, <<"entity", "was", "not", "found">>)
  \/ includes(msg, <<"API", "key">>)

\* C17 amended: when the remote call fails with an error, the promise is
\* fulfilled, not rejected: with the sentinel when the message contains
\* "entity was not found" or "API key" (the advice on display is then left as
\* it was), else with the error text carrying the message, which becomes the
\* advice on display.  A thrown value without properties rejects the promise
\* and leaves the advice as it was.
C17_FailureSurfaced ==
  \A i \in 1..Len(lastAdvice) :
    LET r == lastAdvice[i]
        msg == errorMessage(r.remote)
    IN  /\ r.remote.kind = "error" =>
             /\ r.promise.state = "fulfilled"
             /\ KeyMessage(msg) =>
                  /\ r.promise.value = <<"ERROR_KEY_REQUIRED">>
                  /\ aiInsights = r.aiBefore
             /\ ~KeyMessage(msg) =>
                  /\ r.promise.value = <<"Error", "generating", "insights:">> \o msg
                  /\ aiInsights = r.promise.value
        /\ r.remote.kind = "nullish" =>
             /\ r.promise.state = "rejected"
             /\ aiInsights = r.aiBefore

\* a transport failure after an earlier advice text: the error text with the
\* message has replaced it
C17_Witness ==
  /\ lastAdvice # << >>
  /\ lastAdvice[1].remote = [kind |-> "error", text |-> <<"Failed", "to", "fetch">>]
  /\ lastAdvice[1].aiBefore # << >>
  /\ aiInsights = <<"Error", "generating", "insights:", "Failed", "to", "fetch">>

\* a failure whose message names the key: the sentinel, nothing displayed
C17_WitnessKeyMessage ==
  /\ lastAdvice # << >>
  /\ lastAdvice[1].remote.kind = "error"
  /\ KeyMessage(lastAdvice[1].remote.text)
  /\ lastAdvice[1].promise.value = <<"ERROR_KEY_REQUIRED">>
  /\ aiInsights = << >>

\* C18: the sentinel is never the advice on display, and when a request
\* finishes with the sentinel, hasKey is false afterwards (the key-selection
\* screen) and the advice on display is as it was before.
C18_SentinelPromptsKey ==
  [][ /\ aiInsights' # <<"ERROR_KEY_REQUIRED">>
      /\ ( /\ AdviceJustSettled
           /\ lastAdvice'[1].promise.state = "fulfilled"
           /\ lastAdvice'[1].promise.value = <<"ERROR_KEY_REQUIRED">> ) =>
           /\ hasKey' = "false"
           /\ View(hasKey') = "keySelection"
           /\ aiInsights' = aiInsights ]_vars

\* the sentinel after an advice text: key selection, the text kept
C18_Witness ==
  /\ lastAdvice # << >>
  /\ lastAdvice[1].promise.value = <<"ERROR_KEY_REQUIRED">>
  /\ hasKey = "false"
  /\ ~loadingInsights
  /\ lastAdvice[1].aiBefore # << >>
  /\ aiInsights = lastAdvice[1].aiBefore

-----------------------------------------------------------------------------
(* Which inputs reach which outputs *)

\* the outputs that the stability inputs do not reach
DoseFields ==
  { "limeDose", "sodaAshDose", "softenedPh", "softenedCa", "softenedMg",
    "softenedHardness", "softenedAlkalinity", "sludgeProduced",
    "initialHardness" }

StabilityInputs == { "conductivity", "temperature", "sulphate" }

\* C21: two samples that differ only in conductivity, temperature or sulphate
\* yield identical limeDose, sodaAshDose, softenedPh, softenedCa, softenedMg,
\* softenedHardness, softenedAlkalinity, sludgeProduced and initialHardness;
\* only lsi and ccpp may differ, and sulphate changes no output at all.
C21_StabilityInputsFlowForward ==
  HasPair =>
    /\ \A name \in StabilityInputs :
         DifferOnlyIn(name, prev[1].in, data) =>
           \A f \in DoseFields : results[f] = prev[1].out[f]
    /\ DifferOnlyIn("sulphate", prev[1].in, data) => results = prev[1].out

\* conductivity 650 against 0: the nine outputs agree, lsi and ccpp do not
C21_Witness ==
  /\ HasPair
  /\ DifferOnlyIn("conductivity", prev[1].in, data)
  /\ \A f \in DoseFields : results[f] = prev[1].out[f]
  /\ results.sodaAshDose > 0
  /\ results.lsi # prev[1].out.lsi
  /\ results.ccpp # prev[1].out.ccpp

\* temperature 20 against 5 moves lsi alone of the outputs but ccpp
C21_WitnessTemperature ==
  /\ HasPair
  /\ DifferOnlyIn("temperature", prev[1].in, data)
  /\ results.lsi # prev[1].out.lsi
  /\ results.limeDose = prev[1].out.limeDose
  /\ results.limeDose > 0

\* sulphate 45 against 0 with soda ash dosed: every output agrees
C21_WitnessSulphate ==
  /\ HasPair
  /\ DifferOnlyIn("sulphate", prev[1].in, data)
  /\ results.sodaAshDose > 0
  /\ results = prev[1].out

\* C24: limeDose does not depend on the calcium target: two samples that
\* differ only in targetCa yield the same limeDose and the same softenedPh.
C24_LimeIgnoresTargetCa ==
  (HasPair /\ DifferOnlyIn("targetCa", prev[1].in, data)) =>
    /\ results.limeDose = prev[1].out.limeDose
    /\ results.softenedPh = prev[1].out.softenedPh
    /\ locals.limeDemand_CaCO3 = prev[1].loc.limeDemand_CaCO3

\* the calcium to remove differs between the two calls (and is below the
\* calcium carbonate hardness in one of them), the lime dose does not
C24_Witness ==
  /\ HasPair
  /\ DifferOnlyIn("targetCa", prev[1].in, data)
  /\ locals.caToRemove # prev[1].loc.caToRemove
  /\ locals.caToRemove < locals.caCH
  /\ results.limeDose = prev[1].out.limeDose
  /\ results.limeDose > 0
  /\ results.softenedCa # prev[1].out.softenedCa

-----------------------------------------------------------------------------
(* The incremental magnesium term and the alkalinity balance *)

\* the samples C22 speaks of: nothing negative, targetMg at most the raw
\* magnesium equivalent
MgTargetReachable(d) ==
  /\ NonNegativeSample(d)
  /\ d.targetMg <= rawMg(d)

C22_WitnessWithinCarbonate ==
  /\ Done
  /\ MgTargetReachable(data)
  /\ locals.mgNCH > 0
  /\ data.targetMg >= locals.mgNCH
  /\ locals.mgCH - locals.mgToRemove > 0
  /\ locals.mgNCHToRemove = 0

\* rawAlk + sodaAshDemand - (rawHardness - softenedHardness), before the floor
AlkBalance ==
  locals.rawAlk + locals.sodaAshDemand_CaCO3
    - (locals.rawHardness - results.softenedHardness)

C23_WitnessNoSoda ==
  /\ Done
  /\ results.sodaAshDose = 0
  /\ results.softenedAlkalinity > ALK_FLOOR

-----------------------------------------------------------------------------
(* Properties of the advice requests and of the key gate *)

C25_WitnessSentinel ==
  /\ lastAdvice # NoAdvice
  /\ lastAdvice[1].promise = Fulfilled(ERROR_KEY_REQUIRED)
  /\ hasKey = "false"
  /\ ~loadingInsights

\* a request under way
C25_WitnessLoading == loadingInsights /\ Len(requests) = 1

\* the step stores advice text: a request has ended in a fulfilled promise
\* other than the sentinel
AdviceStored ==
  /\ Len(requests') < Len(requests)
  /\ lastAdvice'[1].promise.state = "fulfilled"
  /\ lastAdvice'[1].promise.value # ERROR_KEY_REQUIRED

\* C26: whenever advice text is displayed it was generated from the inputs
\* currently shown: advice text is stored only for a request made with the
\* inputs shown when it arrives (the one request under way), and an edit
\* that changes the inputs does not leave earlier advice text on display.
C26_AdviceForShownInputs ==
  [][ /\ AdviceStored => requests[1].input = inputs'
      /\ (aiInsights # << >> /\ inputs' # inputs) => aiInsights' = << >> ]_vars

\* the first half of C26 alone: a reply that arrives after an edit
C26_ReplyAfterEdit == [][AdviceStored => requests[1].input = inputs']_vars

\* the second half of C26 alone: an edit after advice has arrived
C26_EditAfterAdvice ==
  [][(aiInsights # << >> /\ inputs' # inputs) => aiInsights' = << >>]_vars

\* C27: at most one advice request is in flight at any time, and while one is
\* in flight loadingInsights is true (so that the 'AI Insights' button is
\* disabled), also on the key-selection screen and after the return from it.
C27_SingleRequest ==
  /\ Len(requests) <= 1
  /\ Len(requests) = 1 => loadingInsights
  /\ loadingInsights => Len(requests) = 1

\* a request is under way while the user, having left the main view through
\* the settings button, has the key dialog open
C27_Witness ==
  /\ Len(requests) = 1
  /\ loadingInsights
  /\ hasKey = "false"
  /\ dialog
  /\ issued < MaxRequests

\* C28: the key gate never traps the user: the initial check always moves
\* hasKey from null to true or false, and from the key-selection screen
\* (hasKey = false) 'Select API Key' eventually sets hasKey to true.
C28_KeyGateNeverTraps ==
  /\ (hasKey = "null") ~> (hasKey \in {"true", "false"})
  /\ (hasKey = "false") ~> (hasKey = "true")

\* the first half of C28 alone
C28_InitialCheckAnswers == (hasKey = "null") ~> (hasKey \in {"true", "false"})

\* the second half of C28 where the platform offers openSelectKey
C28_KeySelectionLeads == (hasKey = "false" /\ aistudio) ~> (hasKey = "true")

\* the key-selection screen on a platform without window.aistudio
C28_Trapped == hasKey = "false" /\ ~aistudio /\ ~dialog

-----------------------------------------------------------------------------
(* Properties of handleInputChange *)

\* the texts handleInputChange is applied to
Texts ==
  { << >>, <<" ">>, <<"-">>, <<".">>, <<"a", "b", "c">>, <<"x", "5">>,
    <<"0">>, <<"-", "0">>, <<"4", "0">>, <<" ", "5", "x">>, <<"-", "1", "0">>,
    <<"7", ".", "2", "5">>, <<".", "5">>, <<"+", "3", ".">> }

\* t starts, after blanks and a sign, with a digit or with a point and a digit
HasNumber(t) ==
  \E i \in 1..Len(t) :
    /\ \A j \in 1..(i - 1) :
         t[j] = " " \/ (j = i - 1 /\ t[j] \in {"+", "-"})
    /\ \/ IsDigit(t[i])
       \/ t[i] = "." /\ i < Len(t) /\ IsDigit(t[i + 1])

\* C29: handleInputChange changes the field named by the edited control and
\* leaves the other eight fields unchanged; the stored value is a finite
\* number, never NaN; empty or unparsable text is stored as 0.
C29_EditFrame ==
  \A name \in FieldNames : \A text \in Texts :
    LET next == handleInputChange(inputs, name, text)
    IN  /\ DOMAIN next = FieldNames
        /\ \A f \in FieldNames \ {name} : next[f] = inputs[f]
        /\ next[name] \in Int
        /\ HasNumber(text) => Fin(next[name]) = parseFloat(text)
        /\ ~HasNumber(text) => next[name] = 0

\* two edits have been made, the first of targetMg to 40, the second of
\* calcium with letters: calcium is 0, targetMg still 40, the rest as it was
C29_Witness ==
  /\ inputsRef = 2
  /\ inputs = [DefaultInputs EXCEPT !.targetMg = Num(40), !.calcium = 0]

====
